---- MODULE Spec2Model ----
(***************************************************************************)
(* Model of CHECK_VAT_SERVICE (src/check_vat.js), the Google Apps Script   *)
(* custom function that validates an EU VAT number against the VIES SOAP   *)
(* service.  One call is a straight pipeline: validate and normalise the   *)
(* argument, build the SOAP request, POST it, check status and body, parse *)
(* the XML, sleep, return one row.  The external collaborators             *)
(* (UrlFetchApp, XmlService, Utilities) are the environment: the remote    *)
(* answer is the variable `service`, failures of the calls are chosen in   *)
(* the actions.                                                            *)
(*                                                                         *)
(* JavaScript values are modelled with their type: a value is a pair       *)
(* <<typeof, payload>>.  JavaScript strings that the code inspects         *)
(* character by character (the argument) are sequences of one-character    *)
(* strings; strings the code only copies or concatenates are TLA+ strings. *)
(***************************************************************************)
EXTENDS Integers, Sequences, FiniteSets, TLC

VARIABLES
    input,        \* the argument the caller passed (never changed)
    vat_number,   \* the parameter, overwritten by its normalised form
    countryCode,
    vatNumber,
    service,      \* what the remote endpoint answers to a POST: [code, xml]
    sent,         \* the requests handed to UrlFetchApp.fetch, in order
    response,     \* the HTTPResponse fetch returned: << >> or <<[code, xml]>>
    requestDate,
    valid,
    name,
    address,
    error,
    sleeps,       \* the durations passed to Utilities.sleep, in order
    exit,         \* the return statement the call left through
    result,       \* what the caller received: a sequence of rows
    pc

vars == <<input, vat_number, countryCode, vatNumber, service, sent, response,
          requestDate, valid, name, address, error, sleeps, exit, result, pc>>

-----------------------------------------------------------------------------
(* Bounds of the model *)

MaxLen == 4        \* longest string argument
MaxKids == 3       \* most children of the element inside Body
MaxRootKids == 2   \* most children of the envelope

-----------------------------------------------------------------------------
(* JavaScript values *)

JsFalse == <<"boolean", "false">>
JsTrue == <<"boolean", "true">>
JsString(s) == <<"string", s>>

\* The characters string arguments are made of: a lower-case letter, the
\* same letter in upper case, a digit, a space, a dot, and a letter whose
\* upper-case form is two characters long (U+00DF, whose toUpperCase() is
\* "SS").
Alphabet == {"n", "N", "1", " ", ".", "ß"}

UpperLetters ==
    {"A", "B", "C", "D", "E", "F", "G", "H", "I", "J", "K", "L", "M",
     "N", "O", "P", "Q", "R", "S", "T", "U", "V", "W", "X", "Y", "Z"}

Digits == {"0", "1", "2", "3", "4", "5", "6", "7", "8", "9"}

RECURSIVE SeqsUpTo(_, _)
SeqsUpTo(S, n) ==
    IF n = 0 THEN {<< >>}
    ELSE LET shorter == SeqsUpTo(S, n - 1)
         IN  shorter \cup {Append(s, c) : s \in {t \in shorter : Len(t) = n - 1}, c \in S}

StringInputs == {<<"string", s>> : s \in SeqsUpTo(Alphabet, MaxLen)}

NonStringInputs ==
    { <<"undefined", << >> >>, <<"object", <<"null">> >>,
      <<"number", <<"0">> >>, <<"number", <<"5">> >>,
      <<"boolean", <<"false">> >>, <<"boolean", <<"true">> >>,
      <<"object", <<"[", "]">> >>, <<"object", <<"{", "}">> >> }

typeof(v) == v[1]

\* ToBoolean of the ECMAScript specification on the values above.
Truthy(v) ==
    CASE v[1] = "undefined" -> FALSE
      [] v[1] = "number"    -> v[2] # <<"0">>
      [] v[1] = "boolean"   -> v[2] = <<"true">>
      [] v[1] = "string"    -> Len(v[2]) > 0
      [] v[1] = "object"    -> v[2] # <<"null">>

-----------------------------------------------------------------------------
(* Input normaliser, check_vat.js:121-129 *)

\* String.prototype.toUpperCase on one character.
toUpperCaseChar(c) ==
    CASE c = "n" -> <<"N">>
      [] c = "ß" -> <<"S", "S">>
      [] OTHER   -> <<c>>

RECURSIVE toUpperCase(_)
toUpperCase(s) ==
    IF s = << >> THEN << >>
    ELSE toUpperCaseChar(Head(s)) \o toUpperCase(Tail(s))

\* s.replace(/[^A-Z0-9]/g, '')
IsAZ09(c) == c \in UpperLetters \cup Digits

StripNonAZ09(s) == SelectSeq(s, IsAZ09)

NormalizeStripFirst(s) == toUpperCase(StripNonAZ09(s))

Normalize(s) == StripNonAZ09(toUpperCase(s))

\* String.prototype.substring(from, to) with 0-based from, exclusive to.
substring(s, from, to) ==
    LET lo == IF from > Len(s) THEN Len(s) ELSE from
        hi == IF to > Len(s) THEN Len(s) ELSE to
    IN  SubSeq(s, lo + 1, hi)

MinLength == 3

-----------------------------------------------------------------------------
(* Request builder, check_vat.js:131-148 *)

Url == "https://ec.europa.eu/taxation_customs/vies/services/checkVatService"

\* The options object; the payload is kept as the two values spliced into
\* the fixed envelope text.
BuildRequest(cc, vn) ==
    [ url                |-> Url,
      method             |-> "POST",
      contentType        |-> "text/xml; charset=utf-8",
      muteHttpExceptions |-> TRUE,
      countryCode        |-> cc,
      vatNumber          |-> vn ]

-----------------------------------------------------------------------------
(* Rows, check_vat.js:118,125,157,162,167,177,192,198,231,236,242 *)

Row(d, v, n, a, e) == <<d, v, n, a, e>>

ErrorRow(msg) == <<Row("", JsFalse, "", "", msg)>>

InvalidInputMsg == "Invalid input: VAT number is required"
TooShortMsg == "Invalid VAT number: too short"
EmptyResponseMsg == "Empty response from service"
NoRootMsg == "Invalid XML response: no root element"
NoBodyMsg == "Invalid XML response: no body element found"
EmptyBodyMsg == "Invalid XML response: empty body element"
SoapFaultMsg == "SOAP Fault received"

NetworkErrorMsg(m) == "Network error: " \o m
HttpErrorMsg(c) == "HTTP error " \o ToString(c) \o ": Service unavailable"
ParseErrorMsg(m) == "XML parsing error: " \o m
UnexpectedErrorMsg(m) == "Unexpected error: " \o m

SleepMillis == 1000

-----------------------------------------------------------------------------
(* XML documents as XmlService presents them.  The response text is kept   *)
(* as the document it denotes: root lists the names Element.getName()      *)
(* gives for the envelope's children (local names, without prefix), body   *)
(* lists the children of a Body child, each with its own children as       *)
(* name/text pairs.                                                        *)

Leaf(n, t) == [name |-> n, text |-> t]

Element(n, k) == [name |-> n, kids |-> k]

Xml(k, r, b) == [kind |-> k, root |-> r, body |-> b]

EmptyXml == Xml("empty", << >>, << >>)          \* getContentText() = ''
MalformedXml == Xml("malformed", << >>, << >>)  \* XmlService.parse throws
NoRootXml == Xml("noroot", << >>, << >>)        \* getRootElement() = null

Leaves ==
    { Leaf("requestDate", "2015-03-09+01:00"),
      Leaf("valid", "true"), Leaf("valid", "false"),
      Leaf("name", "Acme Corp B.V."),
      Leaf("address", "KERKSTRAAT 001234"),
      Leaf("faultstring", "INVALID_INPUT"), Leaf("faultstring", ""),
      Leaf("FaultString", "MS_UNAVAILABLE") }

ElementNames == {"Fault", "fault", "checkVatResponse"}

Elements == {Element(n, k) : n \in ElementNames, k \in SeqsUpTo(Leaves, MaxKids)}

\* The documents of check_vat.js:286-301 and check_vat.js:318-325.
ExampleResponse ==
    Element("checkVatResponse",
            << Leaf("requestDate", "2015-03-09+01:00"), Leaf("valid", "true"),
               Leaf("name", "Acme Corp B.V."), Leaf("address", "KERKSTRAAT 001234") >>)

ExampleFault == Element("Fault", << Leaf("faultstring", "INVALID_INPUT") >>)

RootNames == {"Header", "Body", "body"}

EnvelopeDocs ==
    { Xml("doc", r, b) :
        r \in SeqsUpTo(RootNames, MaxRootKids),
        b \in { << >>, <<ExampleResponse>>, <<ExampleFault>>,
                <<ExampleFault, ExampleResponse>>, <<ExampleResponse, ExampleFault>> } }

PayloadDocs == { Xml("doc", <<"Body">>, <<e>>) : e \in Elements }

ExampleXmls ==
    { EmptyXml, MalformedXml, NoRootXml,
      Xml("doc", <<"Header", "Body">>, <<ExampleResponse>>),
      Xml("doc", <<"Body">>, <<ExampleFault>>) }

StatusCodes == {200, 204, 404, 500}

Answer(c, x) == [code |-> c, xml |-> x]

\* The answers tried with every argument.
ExampleServices ==
    { Answer(200, Xml("doc", <<"Header", "Body">>, <<ExampleResponse>>)),
      Answer(200, Xml("doc", <<"Body">>, <<ExampleFault>>)),
      Answer(500, EmptyXml) }

\* The answers tried with the example arguments: every status with the
\* example bodies, and status 200 with every body.
Services ==
    { Answer(c, x) : c \in StatusCodes, x \in ExampleXmls }
    \cup { Answer(200, x) : x \in EnvelopeDocs \cup PayloadDocs }

\* Messages of the exceptions the host services raise.
FetchErrors == {"", "DNS error", "Timeout"}
XmlErrors == {"Content is not allowed in prolog."}
SleepErrors == {"Interrupted"}

-----------------------------------------------------------------------------
(* Response parser, check_vat.js:170-232 *)

\* String.prototype.toLowerCase on the element names above.
toLowerCase(s) ==
    CASE s = "Body"             -> "body"
      [] s = "Header"           -> "header"
      [] s = "Fault"            -> "fault"
      [] s = "FaultString"      -> "faultstring"
      [] s = "checkVatResponse" -> "checkvatresponse"
      [] s = "requestDate"      -> "requestdate"
      [] OTHER                  -> s

\* The loop of check_vat.js:183-189 and of 207-214: index of the first
\* element of names whose lower-cased name is wanted, 0 when there is none.
RECURSIVE FirstNamed(_, _, _)
FirstNamed(names, wanted, i) ==
    IF i > Len(names) THEN 0
    ELSE IF toLowerCase(names[i]) = wanted THEN i
    ELSE FirstNamed(names, wanted, i + 1)

NamesOf(kids) == [i \in 1..Len(kids) |-> kids[i].name]

Fields(d, v, n, a, e) ==
    [requestDate |-> d, valid |-> v, name |-> n, address |-> a, error |-> e]

DefaultFields == Fields("", JsFalse, "", "", "")

\* check_vat.js:206-217
FaultError(faultElements) ==
    LET i == FirstNamed(NamesOf(faultElements), "faultstring", 1)
        found == IF i = 0 THEN "" ELSE faultElements[i].text
    IN  IF found = "" THEN SoapFaultMsg ELSE found

\* check_vat.js:220-228: one turn of the loop per child, later children
\* overwrite earlier ones.
RECURSIVE DataFields(_, _, _)
DataFields(dataElements, i, f) ==
    IF i > Len(dataElements) THEN f
    ELSE LET tag == dataElements[i].name
             value == dataElements[i].text
         IN  DataFields(dataElements, i + 1,
                 Fields(IF tag = "requestDate" THEN value ELSE f.requestDate,
                        IF tag = "valid" THEN JsString(value) ELSE f.valid,
                        IF tag = "name" THEN value ELSE f.name,
                        IF tag = "address" THEN value ELSE f.address,
                        f.error))

IsFaultExactCase(responseElement) == responseElement.name = "fault"

\* check_vat.js:202-205
IsFault(responseElement) == toLowerCase(responseElement.name) = "fault"

ExtractFallThrough(responseElement) ==
    IF IsFault(responseElement)
    THEN DataFields(responseElement.kids, 1,
                    Fields("", JsFalse, "", "", FaultError(responseElement.kids)))
    ELSE DataFields(responseElement.kids, 1, DefaultFields)

\* check_vat.js:201-229
Extract(responseElement) ==
    IF IsFault(responseElement)
    THEN Fields("", JsFalse, "", "", FaultError(responseElement.kids))
    ELSE DataFields(responseElement.kids, 1, DefaultFields)

\* check_vat.js:173-199: the return statement the structural checks lead
\* to, "extract" when they all pass.
Structure(x) ==
    IF x.kind = "noroot" THEN "no_root"
    ELSE IF FirstNamed(x.root, "body", 1) = 0 THEN "no_body"
    ELSE IF Len(x.body) = 0 THEN "empty_body"
    ELSE "extract"

StructureMessage(s) ==
    CASE s = "no_root"    -> NoRootMsg
      [] s = "no_body"    -> NoBodyMsg
      [] s = "empty_body" -> EmptyBodyMsg

-----------------------------------------------------------------------------
(* Guards of CHECK_VAT_SERVICE *)

IsRejectedIfFalsy(v) == ~Truthy(v)

\* check_vat.js:117
IsRejected(v) == ~Truthy(v) \/ typeof(v) # "string"

TooShortBelowTwo(s) == Len(s) < MinLength - 1

\* check_vat.js:124
TooShort(s) == Len(s) < MinLength

AfterFetchEmptyFirst(c, x) ==
    IF x.kind = "empty" THEN "empty_response"
    ELSE IF c # 200 THEN "http_error"
    ELSE "parse"

\* check_vat.js:160-168: the return statement the checks on the response
\* lead to, "parse" when both pass.
AfterFetch(c, x) ==
    IF c # 200 THEN "http_error"
    ELSE IF x.kind = "empty" THEN "empty_response"
    ELSE "parse"

AfterStructureAlwaysSleep(s) == "sleep"

\* check_vat.js:176-199,234: the structural early returns leave the call,
\* everything else runs on to the sleep.
AfterStructure(s) == IF s = "extract" THEN "sleep" ELSE "done"

OnFetchErrorRetryOnce(attempts) == IF attempts < 2 THEN "fetch" ELSE "done"

\* check_vat.js:156-158: the catch of the transport's exception returns;
\* attempts is the number of POSTs issued so far.
OnFetchError(attempts) == "done"

Uncaught(m) == [pc |-> "thrown", result |-> << >>]

\* check_vat.js:240-243
CatchAll(m) == [pc |-> "done", result |-> ErrorRow(UnexpectedErrorMsg(m))]

-----------------------------------------------------------------------------
(* The call *)

Inputs == StringInputs \cup NonStringInputs

\* Arguments that pass validation, used with the full range of answers.
ExampleInputs ==
    { <<"string", <<"N", "n", "1">> >>, <<"string", <<"ß", ".", "1">> >> }

Init ==
    /\ \/ input \in Inputs /\ service \in ExampleServices
       \/ input \in ExampleInputs /\ service \in Services
    /\ vat_number = input
    /\ countryCode = << >>
    /\ vatNumber = << >>
    /\ sent = << >>
    /\ response = << >>
    /\ requestDate = ""
    /\ valid = JsFalse
    /\ name = ""
    /\ address = ""
    /\ error = ""
    /\ sleeps = << >>
    /\ exit = "running"
    /\ result = << >>
    /\ pc = "validate"

Leave(how, rows) ==
    /\ exit' = how
    /\ result' = rows
    /\ pc' = "done"

\* check_vat.js:116-129
Validate ==
    /\ pc = "validate"
    /\ UNCHANGED <<input, service, sent, response, requestDate, valid, name,
                   address, error, sleeps>>
    /\ IF IsRejected(vat_number)
       THEN /\ Leave("invalid_input", ErrorRow(InvalidInputMsg))
            /\ UNCHANGED <<vat_number, countryCode, vatNumber>>
       ELSE LET s == Normalize(vat_number[2])
            IN  /\ vat_number' = <<"string", s>>
                /\ IF TooShort(s)
                   THEN /\ Leave("too_short", ErrorRow(TooShortMsg))
                        /\ UNCHANGED <<countryCode, vatNumber>>
                   ELSE /\ countryCode' = substring(s, 0, 2)
                        /\ vatNumber' = substring(s, 2, Len(s))
                        /\ pc' = "fetch"
                        /\ UNCHANGED <<exit, result>>

\* check_vat.js:131-168
Fetch ==
    /\ pc = "fetch"
    /\ sent' = Append(sent, BuildRequest(countryCode, vatNumber))
    /\ UNCHANGED <<input, vat_number, countryCode, vatNumber, service,
                   requestDate, valid, name, address, error, sleeps>>
    /\ \/ \E m \in FetchErrors :
            /\ IF OnFetchError(Len(sent) + 1) = "done"
               THEN Leave("network_error", ErrorRow(NetworkErrorMsg(m)))
               ELSE pc' = OnFetchError(Len(sent) + 1) /\ UNCHANGED <<exit, result>>
            /\ UNCHANGED response
       \/ /\ response' = <<service>>
          /\ LET next == AfterFetch(service.code, service.xml)
             IN  CASE next = "http_error" ->
                        Leave(next, ErrorRow(HttpErrorMsg(service.code)))
                   [] next = "empty_response" ->
                        Leave(next, ErrorRow(EmptyResponseMsg))
                   [] next = "parse" ->
                        pc' = "parse" /\ UNCHANGED <<exit, result>>

\* check_vat.js:170-232
Parse ==
    /\ pc = "parse"
    /\ UNCHANGED <<input, vat_number, countryCode, vatNumber, service, sent,
                   response, sleeps>>
    /\ LET x == response[1].xml
           s == Structure(x)
           f == IF s = "extract" THEN Extract(x.body[1]) ELSE DefaultFields
       IN  \/ \E m \in XmlErrors :
                /\ Leave("parse_error", ErrorRow(ParseErrorMsg(m)))
                /\ UNCHANGED <<requestDate, valid, name, address, error>>
           \/ /\ x.kind # "malformed"
              /\ requestDate' = f.requestDate
              /\ valid' = f.valid
              /\ name' = f.name
              /\ address' = f.address
              /\ error' = f.error
              /\ IF AfterStructure(s) = "done"
                 THEN Leave(s, ErrorRow(StructureMessage(s)))
                 ELSE pc' = AfterStructure(s) /\ UNCHANGED <<exit, result>>

\* check_vat.js:234
Sleep ==
    /\ pc = "sleep"
    /\ sleeps' = Append(sleeps, SleepMillis)
    /\ UNCHANGED <<input, vat_number, countryCode, vatNumber, service, sent,
                   response, requestDate, valid, name, address, error>>
    /\ \/ \E m \in SleepErrors :
            /\ exit' = "unexpected_error"
            /\ result' = CatchAll(m).result
            /\ pc' = CatchAll(m).pc
       \/ pc' = "return" /\ UNCHANGED <<exit, result>>

\* check_vat.js:236-238
Return ==
    /\ pc = "return"
    /\ Leave("normal", Append(result, Row(requestDate, valid, name, address, error)))
    /\ UNCHANGED <<input, vat_number, countryCode, vatNumber, service, sent,
                   response, requestDate, valid, name, address, error, sleeps>>

Next == Validate \/ Fetch \/ Parse \/ Sleep \/ Return

Spec == Init /\ [][Next]_vars

\* The function runs to completion once called: no step waits on another
\* process.
FairSpec == Spec /\ WF_vars(Next)

TypeOK ==
    /\ pc \in {"validate", "fetch", "parse", "sleep", "return", "done"}
    /\ Len(result) <= 1
    /\ Len(sent) <= 1

-----------------------------------------------------------------------------
(* Vocabulary of the properties *)

Done == pc = "done"

\* The normalised form as the documentation words it: each character
\* upper-cased, then dropped unless it is in [A-Z0-9].
RECURSIVE NormalizedForm(_)
NormalizedForm(s) ==
    IF s = << >> THEN << >>
    ELSE SelectSeq(toUpperCaseChar(Head(s)), IsAZ09) \o NormalizedForm(Tail(s))

IsStringInput == typeof(input) = "string"

TooShortRow == <<"", JsFalse, "", "", "Invalid VAT number: too short">>
InvalidInputRow == <<"", JsFalse, "", "", "Invalid input: VAT number is required">>

\* The call got an answer, found the Body and its first child, and came
\* back through the last return statement.
ReturnedNormally == Done /\ exit = "normal"

Payload == response[1].xml.body[1]

LowerNames(kids) == {toLowerCase(kids[i].name) : i \in 1..Len(kids)}

-----------------------------------------------------------------------------
(* C1 *)

\* C1 as stated: every string argument whose normalised form is shorter
\* than 3 characters, the empty string included, returns exactly the row
\* ["", false, "", "", "Invalid VAT number: too short"].
C1_AsStated ==
    (Done /\ IsStringInput /\ Len(NormalizedForm(input[2])) < 3)
        => result = <<TooShortRow>>

\* C1 amended: every NON-EMPTY string argument whose normalised form is
\* shorter than 3 characters returns exactly the too-short row and sends
\* nothing; the empty string returns the row of a missing argument.
C1_TooShort ==
    /\ (Done /\ IsStringInput /\ input[2] # << >>
             /\ Len(NormalizedForm(input[2])) < 3)
          => (result = <<TooShortRow>> /\ sent = << >>)
    /\ (Done /\ IsStringInput /\ input[2] = << >>)
          => result = <<InvalidInputRow>>

\* A whitespace-only argument was answered with the too-short row.
C1_Witness ==
    /\ Done
    /\ input = <<"string", <<" ", " ">> >>
    /\ result = <<TooShortRow>>

-----------------------------------------------------------------------------
(* C2 *)

\* C2: every argument that is absent (undefined, null) or not of string
\* type (number, boolean, array, object) returns exactly the row
\* ["", false, "", "", "Invalid input: VAT number is required"].
C2_InvalidInput ==
    (Done /\ ~IsStringInput) => (result = <<InvalidInputRow>> /\ sent = << >>)

\* A truthy number was answered with the invalid-input row.
C2_Witness ==
    /\ Done
    /\ input = <<"number", <<"5">> >>
    /\ result = <<InvalidInputRow>>

-----------------------------------------------------------------------------
(* C3 *)

\* The payload carries exactly requestDate=D, valid="true", name=N,
\* address=A, once each.
IsSuccessPayload(el, D, N, A) ==
    /\ el.name = "checkVatResponse"
    /\ Len(el.kids) = 4
    /\ {el.kids[i] : i \in 1..4} =
          {Leaf("requestDate", D), Leaf("valid", "true"), Leaf("name", N), Leaf("address", A)}

ExampleD == "2015-03-09+01:00"
ExampleN == "Acme Corp B.V."
ExampleA == "KERKSTRAAT 001234"

\* C3 as stated: a status-200 answer whose Body's first child is a
\* checkVatResponse with requestDate=D, valid="true", name=N, address=A
\* yields exactly the row [D, true, N, A, ""], the second field being the
\* boolean true.
C3_AsStated ==
    (ReturnedNormally /\ IsSuccessPayload(Payload, ExampleD, ExampleN, ExampleA))
        => result = <<Row(ExampleD, JsTrue, ExampleN, ExampleA, "")>>

-----------------------------------------------------------------------------
(* C4 *)

\* The text of the last valid child of the payload, "" when there is none:
\* what the service said about validity.
RECURSIVE LastValidText(_, _)
LastValidText(kids, i) ==
    IF i = 0 THEN ""
    ELSE IF kids[i].name = "valid" THEN kids[i].text
    ELSE LastValidText(kids, i - 1)

ServiceSaysTrue ==
    /\ exit = "normal"
    /\ toLowerCase(Payload.name) # "fault"
    /\ LastValidText(Payload.kids, Len(Payload.kids)) = "true"

\* C4 as stated: the second field of the returned row is the boolean false
\* unless the answer explicitly carries a true value; with no valid child,
\* or one whose text is "false", it is the boolean false.
C4_AsStated ==
    (Done /\ ~ServiceSaysTrue) => result[1][2] = JsFalse

-----------------------------------------------------------------------------
(* C5 *)

FaultStringIndexes(kids) ==
    {i \in 1..Len(kids) : toLowerCase(kids[i].name) = "faultstring"}

FirstFaultStringText(kids) ==
    LET first == CHOOSE i \in FaultStringIndexes(kids) :
                    \A j \in FaultStringIndexes(kids) : i <= j
    IN  kids[first].text

PayloadIsFault == ReturnedNormally /\ toLowerCase(Payload.name) = "fault"

\* C5 as stated: when the first child of Body is a fault, the row is
\* ["", false, "", "", E] with E the text of the first faultstring child if
\* there is one, and "SOAP Fault received" only if there is none.
C5_AsStated ==
    PayloadIsFault =>
        result = << <<"", JsFalse, "", "",
                      IF FaultStringIndexes(Payload.kids) = {}
                      THEN "SOAP Fault received"
                      ELSE FirstFaultStringText(Payload.kids)>> >>

\* C5 amended: when the first child of Body is a fault and the call
\* returns through its last return statement, the row is
\* ["", false, "", "", E] with E the text of the first faultstring child if
\* there is one AND ITS TEXT IS NOT EMPTY, and "SOAP Fault received" if
\* there is none or the first one is empty.
C5_FaultMapping ==
    PayloadIsFault =>
        result = << <<"", JsFalse, "", "",
                      IF \/ FaultStringIndexes(Payload.kids) = {}
                         \/ FirstFaultStringText(Payload.kids) = ""
                      THEN "SOAP Fault received"
                      ELSE FirstFaultStringText(Payload.kids)>> >>

\* A fault named Fault whose FaultString child is not the first child was
\* answered with that child's text.
C5_Witness ==
    /\ PayloadIsFault
    /\ Payload.name = "Fault"
    /\ Len(Payload.kids) >= 2
    /\ Payload.kids[1].name # "FaultString"
    /\ Payload.kids[2] = Leaf("FaultString", "MS_UNAVAILABLE")
    /\ FaultStringIndexes(Payload.kids) = {2}
    /\ result = << <<"", JsFalse, "", "", "MS_UNAVAILABLE">> >>

-----------------------------------------------------------------------------
(* C6 *)

Answered == response # << >>

\* C6: when the transport delivers an answer whose status c is not 200,
\* the row is exactly ["", false, "", "", "HTTP error <c>: Service
\* unavailable"] whatever the body is, an empty one included; the call
\* neither parses nor sleeps.
C6_HttpError ==
    (Done /\ Answered /\ response[1].code # 200) =>
        /\ result = << <<"", JsFalse, "", "",
                         "HTTP error " \o ToString(response[1].code)
                                       \o ": Service unavailable">> >>
        /\ response[1].code = 500 =>
              result[1][5] = "HTTP error 500: Service unavailable"
        /\ sleeps = << >>

\* Status 500 with an empty body was answered with the HTTP error row.
C6_Witness ==
    /\ Done
    /\ Answered
    /\ response[1].code = 500
    /\ response[1].xml.kind = "empty"
    /\ result = << <<"", JsFalse, "", "", "HTTP error 500: Service unavailable">> >>

-----------------------------------------------------------------------------
(* C7 *)

IsErrorShape(row) ==
    row[5] # "" /\ row[1] = "" /\ row[2] = JsFalse /\ row[3] = "" /\ row[4] = ""

IsSuccessShape(row) == row[5] = ""

\* C7: a returned row is never a hybrid: its error field is empty, or its
\* error field is non-empty and requestDate, name and address are empty
\* and valid is false.
C7_NoHybrid ==
    Done => \A i \in 1..Len(result) :
                IsSuccessShape(result[i]) \/ IsErrorShape(result[i])

\* A fault that also carries a name child was answered with an error row.
C7_Witness ==
    /\ PayloadIsFault
    /\ "name" \in {Payload.kids[i].name : i \in 1..Len(Payload.kids)}
    /\ IsErrorShape(result[1])

-----------------------------------------------------------------------------
(* C8 *)

IsJsString(v) == v \in STRING

IsWellFormedRow(row) ==
    /\ Len(row) = 5
    /\ IsJsString(row[1])
    /\ row[2][1] \in {"boolean", "string"}
    /\ IsJsString(row[3])
    /\ IsJsString(row[4])
    /\ IsJsString(row[5])

\* C8: no exception reaches the caller; a finished call has returned
\* exactly one row of five fields; a failure of the sleep call, the one
\* failure without a message of its own, returns
\* ["", false, "", "", "Unexpected error: <message>"]; every transport and
\* parser failure returns an error-shaped row; and every call finishes.
C8_AlwaysOneRow ==
    /\ [](pc # "thrown")
    /\ [](Done => (Len(result) = 1 /\ IsWellFormedRow(result[1])))
    /\ [](~Done => result = << >>)
    /\ []((Done /\ exit = "unexpected_error") =>
            \E m \in SleepErrors :
                result = << <<"", JsFalse, "", "", "Unexpected error: " \o m>> >>)
    /\ []((Done /\ exit \in {"network_error", "parse_error"}) =>
            IsErrorShape(result[1]))
    /\ <>Done

\* The sleep call failed and the caller received the unexpected-error row.
C8_Witness ==
    /\ Done
    /\ exit = "unexpected_error"
    /\ sleeps # << >>
    /\ result = << <<"", JsFalse, "", "", "Unexpected error: Interrupted">> >>

-----------------------------------------------------------------------------
(* C9 *)

\* The answer is one the parser can take fields from: status 200 and a
\* document whose envelope has a Body child with at least one child.
HasPayload(a) ==
    /\ a.code = 200
    /\ a.xml.kind = "doc"
    /\ \E i \in 1..Len(a.xml.root) : a.xml.root[i] \in {"Body", "body"}
    /\ Len(a.xml.body) > 0

EarlyExits ==
    {"invalid_input", "too_short", "network_error", "http_error",
     "empty_response", "parse_error", "no_root", "no_body", "empty_body"}

-----------------------------------------------------------------------------
(* C10 *)

LowerLetters == {"n"}
Punctuation == {" ", "."}

FlipCase(c) == CASE c = "n" -> "N" [] c = "N" -> "n" [] OTHER -> c

\* The strings one edit away from s that differ from it only in letter
\* case or in a space or dot: one letter changed to its other case, one
\* space or dot inserted, one space or dot removed.
Variants(s) ==
    {[s EXCEPT ![i] = FlipCase(s[i])] : i \in 1..Len(s)}
    \cup {SubSeq(s, 1, i) \o <<p>> \o SubSeq(s, i + 1, Len(s)) :
            i \in 0..Len(s), p \in Punctuation}
    \cup {SubSeq(s, 1, i - 1) \o SubSeq(s, i + 1, Len(s)) :
            i \in {j \in 1..Len(s) : s[j] \in Punctuation}}

\* check_vat.js:121-148 as a function of the argument's characters.
RequestFor(s) ==
    LET n == Normalize(s)
    IN  BuildRequest(substring(n, 0, 2), substring(n, 2, Len(n)))

\* C10: a string argument whose normalised form s has at least 3
\* characters sends a request with countryCode = the first 2 characters of
\* s and vatNumber = the non-empty rest, both made of [A-Z0-9] only; and an
\* argument that differs only in letter case, spaces or dots produces the
\* same request.
C10_Normalizer ==
    /\ (IsStringInput /\ Len(NormalizedForm(input[2])) >= 3 /\ pc # "validate")
          => (pc # "fetch" => Len(sent) = 1)
    /\ sent # << >> =>
          LET s == NormalizedForm(input[2])
              r == sent[1]
          IN  /\ IsStringInput
              /\ Len(s) >= 3
              /\ r.countryCode = <<s[1], s[2]>>
              /\ Len(r.vatNumber) >= 1
              /\ r.countryCode \o r.vatNumber = s
              /\ \A i \in 1..Len(s) : s[i] \in UpperLetters \cup Digits
              /\ r.url = Url /\ r.method = "POST"
              /\ \A v \in Variants(input[2]) : RequestFor(v) = r

\* A lower-case argument with a space and a two-character upper-case
\* expansion was sent as country code SS and number N1.
C10_Witness ==
    /\ input = <<"string", <<"ß", " ", "n", "1">> >>
    /\ sent # << >>
    /\ sent[1].countryCode = <<"S", "S">>
    /\ sent[1].vatNumber = <<"N", "1">>

-----------------------------------------------------------------------------
(* C11 *)

\* The argument passes input validation as the documentation words it: a
\* non-empty string whose normalised form has at least 3 characters.
PassesValidation ==
    IsStringInput /\ Len(NormalizedForm(input[2])) >= 3

\* C11: a call issues the HTTP POST at most once, with no retry after a
\* network failure, a non-200 status, an empty body or a parse error; a
\* finished call whose argument passes validation has issued exactly one
\* POST, to the fixed URL, and one whose argument is absent, not a string
\* or too short has issued none.
C11_SingleAttempt ==
    /\ [](Len(sent) <= 1)
    /\ []((Done /\ PassesValidation) =>
            (Len(sent) = 1 /\ sent[1].method = "POST" /\ sent[1].url = Url))
    /\ []((Done /\ ~PassesValidation) => sent = << >>)
    /\ []((Done /\ exit \in {"network_error", "http_error", "empty_response",
                             "parse_error"}) => Len(sent) = 1)
    /\ [][sent' # sent => (pc = "fetch" /\ sent = << >> /\ Len(sent') = 1)]_vars

\* The transport failed on the only POST and the call returned the
\* network-error row without a second attempt.
C11_Witness ==
    /\ Done
    /\ exit = "network_error"
    /\ Len(sent) = 1
    /\ response = << >>
    /\ result = << <<"", JsFalse, "", "", "Network error: Timeout">> >>

====
